---------------------------- MODULE Spec2Model ----------------------------
(***************************************************************************)
(* Model of the WhatsApp stock bot's two core components:                  *)
(*   - the outbound segmenter splitMessageIntelligently and the multi-part *)
(*     sender sendMetaWhatsAppMessage that calls it;                       *)
(*   - the preference resolver UserManager.handleLanguagePreference with   *)
(*     the SQLite-backed user store and the orchestration function         *)
(*     processMessageWithLanguageSupport that calls it.                    *)
(* Strings are sequences of one-character strings; string indexes are the  *)
(* 0-based indexes of JavaScript.                                          *)
(***************************************************************************)
EXTENDS Integers, Sequences, FiniteSets, TLC

VARIABLES
    \* ---- segmenter / sender -------------------------------------------
    text,        \* messageText / text: the reply handed to the sender or splitter
    maxLength,   \* maxLength parameter of the splitter (MAX_LENGTH in the sender)
    caller,      \* "split": the splitter is applied directly; "send": through the sender
    spc,         \* position in the sender / splitter code
    remaining,   \* local `remaining` of splitMessageIntelligently
    parts,       \* local `parts` of splitMessageIntelligently (its return value)
    splitIndex,  \* local `splitIndex` of the last iteration of the while loop
    i,           \* loop index `i` of the sender's for loop
    sent,        \* the bodies handed to the transport, in order of the calls
    sendRet,     \* what the sender returned: "none" (not yet), "ok" or "null"
    \* ---- preference resolver / user store -----------------------------
    users,       \* the users table: phone_number -> row (a partial function)
    users0,      \* the users table as it was when the server started
    pc,          \* per request: position in the orchestration and the resolver
    stage,       \* per request: "handle" (resolver) or "catch" (error handler lookup)
    phone,       \* per request: phoneNumber / fromNumber
    msg,         \* per request: message / messageBody
    user,        \* per request: local `user` of getUserLanguagePreference
    userLanguage,\* per request: local `userLanguage`
    result,      \* per request: the object handleLanguagePreference returned
    stockNames,  \* per request: local `stockNames` of the orchestration
    outbox,      \* per request: the texts handed to the sender, in order
    before,      \* per request: the user's row when the request started
    ops,         \* per request: the store writes that succeeded, in order
    faulted,     \* per request: TRUE once a store operation of this call failed
    lastCall,    \* per phone number: the previous resolver call (message, result)
    started,     \* per phone number: number of requests started so far
    clean,       \* per phone number: no store fault and no analysis failure so far
    concurrent,  \* TRUE when requests may overlap (the webhook does not await them)
    faults,      \* TRUE when the store and the analysis may fail
    \* ---- the transport shared by the requests in progress ---------------
    wire,        \* the transport calls of all requests, in the order they were made
    sending,     \* per request: position of its sendMetaWhatsAppMessage call
    lossy,       \* TRUE when a transport call may fail
    returns,     \* per request: what each awaited sender call returned
    \* ---- the POST /webhook handler --------------------------------------
    req,         \* req.body of the request being handled (<<>>: none)
    hpc,         \* position of the handler
    responses,   \* the status codes of the res.status(..).send(..) calls made
    calls        \* the messages processMetaMessage was called for

splitVars == <<text, maxLength, caller, spc, remaining, parts, splitIndex, i, sent,
               sendRet>>
userVars  == <<users, users0, pc, stage, phone, msg, user, userLanguage, result,
               stockNames, outbox, before, ops, faulted, lastCall, started, clean,
               concurrent, faults>>
netVars == <<wire, sending, lossy>>
wireVars == <<wire, sending, lossy, returns>>
hookVars == <<req, hpc, responses, calls>>
vars == <<splitVars, userVars, wireVars, hookVars>>

-----------------------------------------------------------------------------
(* Bounds of the model *)

\* bodies are built from at most MaxTokens tokens
MaxTokens == 4
\* the chunk size limit ranges over 1..MaxChunkSize
MaxChunkSize == 3
\* at most MaxCalls inbound messages per run
MaxCalls == 3
\* at most MaxInFlight requests are processed at the same time
MaxInFlight == 2
\* a non-positive chunk size limit ranges over -MaxInvalid..0
MaxInvalid == 2
\* a run of the while loop that never ends is followed for MaxIterations turns
MaxIterations == 3
\* the chunk size limit of the bodies built around the 70% window
WindowLimit == 10
\* those bodies have up to MaxGap letters between their two markers and up to
\* MaxTail letters after the second
MaxGap == 2
MaxTail == 3
\* a list of a webhook payload (entry, changes, messages) has at most MaxItems
\* elements
MaxItems == 1
\* a reply has at most MaxParts parts where concurrent replies are followed
MaxParts == 3
\* at most MaxLiveCalls inbound messages per run where progress is checked
MaxLiveCalls == 1

-----------------------------------------------------------------------------
(* Strings *)

\* characters String.prototype.trim removes
Whitespace == {" ", "\n", "\t"}

RECURSIVE TrimStart(_)
TrimStart(s) ==
    IF s = <<>> THEN s
    ELSE IF Head(s) \in Whitespace THEN TrimStart(Tail(s)) ELSE s

RECURSIVE TrimEnd(_)
TrimEnd(s) ==
    IF s = <<>> THEN s
    ELSE IF s[Len(s)] \in Whitespace THEN TrimEnd(SubSeq(s, 1, Len(s) - 1)) ELSE s

\* String.prototype.trim
Trim(s) == TrimEnd(TrimStart(s))

\* String.prototype.substring(from, to), 0-based, `to` exclusive; both
\* arguments are clamped to 0..length and swapped when from > to
Substring(s, from, to) ==
    LET f == IF from > Len(s) THEN Len(s) ELSE IF from < 0 THEN 0 ELSE from
        t == IF to > Len(s) THEN Len(s) ELSE IF to < 0 THEN 0 ELSE to
    IN  IF f <= t THEN SubSeq(s, f + 1, t) ELSE SubSeq(s, t + 1, f)

\* the 0-based indexes at which pat occurs in s
Occurrences(s, pat) ==
    {k \in 0..(Len(s) - Len(pat)) : SubSeq(s, k + 1, k + Len(pat)) = pat}

Max(S) == CHOOSE x \in S : \A y \in S : y <= x
Min(S) == CHOOSE x \in S : \A y \in S : x <= y

\* String.prototype.lastIndexOf(pat, position): the last occurrence that
\* starts at or before position, -1 when there is none; a negative position
\* counts as 0
LastIndexOf(s, pat, position) ==
    LET from == IF position < 0 THEN 0 ELSE position
        at == {k \in Occurrences(s, pat) : k <= from}
    IN  IF at = {} THEN -1 ELSE Max(at)

\* template-literal rendering of a non-negative integer in decimal
DigitChars == <<"0", "1", "2", "3", "4", "5", "6", "7", "8", "9">>

RECURSIVE Digits(_)
Digits(n) ==
    IF n < 10 THEN <<DigitChars[n + 1]>>
    ELSE Digits(n \div 10) \o <<DigitChars[(n % 10) + 1]>>

-----------------------------------------------------------------------------
(* splitMessageIntelligently *)

StockSeparator == <<"\n", "\n", "-", "-", "-", "\n", "\n">>

\* the ranked break markers, most preferred first
breakPoints ==
    << StockSeparator,
       <<"\n", "\n">>,
       <<"\n", "*">>,
       <<"\n">>,
       <<".", " ">>,
       <<",", " ">>,
       <<" ">> >>

\* a slip: the 70% test is missing, any occurrence up to the limit passes
InWindowAny(lastBreakIndex, maxLen) == lastBreakIndex >= 0

\* a slip: the comparison with 70% of the limit is not strict
InWindowInclusive(lastBreakIndex, maxLen) == lastBreakIndex * 10 >= maxLen * 7

\* lastBreakIndex > maxLength * 0.7, in integers
InWindow(lastBreakIndex, maxLen) == lastBreakIndex * 10 > maxLen * 7

\* the ranks of the markers that pass the test of the for loop
Qualifying(rem, maxLen) ==
    {b \in 1..Len(breakPoints) :
        InWindow(LastIndexOf(rem, breakPoints[b], maxLen), maxLen)}

\* a slip: among the qualifying markers the one ending nearest to the limit
\* is taken, whatever its rank
SplitIndexNearest(rem, maxLen) ==
    IF Qualifying(rem, maxLen) = {} THEN maxLen
    ELSE Max({LastIndexOf(rem, breakPoints[b], maxLen) + Len(breakPoints[b]) :
                b \in Qualifying(rem, maxLen)})

\* splitIndex after the for loop: the first qualifying marker's end, else maxLength
SplitIndex(rem, maxLen) ==
    IF Qualifying(rem, maxLen) = {} THEN maxLen
    ELSE LET b == Min(Qualifying(rem, maxLen))
         IN  LastIndexOf(rem, breakPoints[b], maxLen) + Len(breakPoints[b])

\* an off-by-one slip: the part stops one character short of splitIndex
PartOfShort(rem, index) == Trim(Substring(rem, 0, index - 1))

\* const part = remaining.substring(0, splitIndex).trim()
PartOf(rem, index) == Trim(Substring(rem, 0, index))

\* a slip: remaining restarts one character before splitIndex
RestOfOverlap(rem, index) == Trim(Substring(rem, index - 1, Len(rem)))

\* a slip: the text before splitIndex is not removed from remaining
RestOfWhole(rem, index) == Trim(rem)

\* remaining = remaining.substring(splitIndex).trim()
RestOf(rem, index) == Trim(Substring(rem, index, Len(rem)))

\* a slip: the final part is cleaned up like the others
FinalPartsTrimmed(ps, rem) == IF Len(rem) > 0 THEN Append(ps, Trim(rem)) ELSE ps

\* if (remaining.length > 0) parts.push(remaining)
FinalParts(ps, rem) == IF Len(rem) > 0 THEN Append(ps, rem) ELSE ps

\* the splitter is applied to (text, maxLength) on its own
CallSplit ==
    /\ spc = "start"
    /\ caller' = "split"
    /\ remaining' = text
    /\ parts' = <<>>
    /\ spc' = "loop"
    /\ UNCHANGED <<text, maxLength, splitIndex, i, sent, sendRet, userVars, wireVars, hookVars>>

\* one iteration of while (remaining.length > maxLength)
SplitStep ==
    /\ spc = "loop"
    /\ Len(remaining) > maxLength
    /\ splitIndex' = SplitIndex(remaining, maxLength)
    /\ parts' = Append(parts, PartOf(remaining, splitIndex'))
    /\ remaining' = RestOf(remaining, splitIndex')
    /\ UNCHANGED <<text, maxLength, caller, spc, i, sent, sendRet, userVars, wireVars, hookVars>>

\* the loop exits: push the final part and return parts
SplitReturn ==
    /\ spc = "loop"
    /\ Len(remaining) <= maxLength
    /\ parts' = FinalParts(parts, remaining)
    /\ spc' = IF caller = "send" THEN "send" ELSE "done"
    /\ i' = 0
    /\ UNCHANGED <<text, maxLength, caller, remaining, splitIndex, sent, sendRet,
                   userVars, wireVars, hookVars>>

-----------------------------------------------------------------------------
(* sendMetaWhatsAppMessage (sendWhatsAppMessage in the Twilio revision) *)

\* a slip: the label shows the 0-based loop index
PartHeaderZeroBased(idx, n) ==
    IF n > 1
    THEN <<"(">> \o Digits(idx) \o <<"/">> \o Digits(n) \o <<")", " ">>
    ELSE <<>>

\* const partHeader = parts.length > 1 ? `(${i + 1}/${parts.length}) ` : ''
PartHeader(idx, n) ==
    IF n > 1
    THEN <<"(">> \o Digits(idx + 1) \o <<"/">> \o Digits(n) \o <<")", " ">>
    ELSE <<>>

\* entry of the sender: one transport call when the text fits, else split
SendEntry ==
    /\ spc = "start"
    /\ caller' = "send"
    /\ IF Len(text) <= maxLength
       THEN /\ sent' = Append(sent, text)
            /\ \E ok \in BOOLEAN : sendRet' = IF ok THEN "ok" ELSE "null"
            /\ spc' = "done"
            /\ UNCHANGED <<remaining, parts>>
       ELSE /\ remaining' = text
            /\ parts' = <<>>
            /\ spc' = "loop"
            /\ UNCHANGED <<sent, sendRet>>
    /\ UNCHANGED <<text, maxLength, splitIndex, i, userVars, wireVars, hookVars>>

\* a slip: the catch block sits inside the loop, which goes on with the next
\* part
SendPartContinues ==
    /\ spc = "send"
    /\ i < Len(parts)
    /\ sent' = Append(sent, PartHeader(i, Len(parts)) \o parts[i + 1])
    /\ \E ok \in BOOLEAN :
         /\ sendRet' = IF ok THEN sendRet ELSE "null"
         /\ IF ok /\ i < Len(parts) - 1
            THEN spc' = "delay" /\ i' = i
            ELSE spc' = "send" /\ i' = i + 1
    /\ UNCHANGED <<text, maxLength, caller, remaining, parts, splitIndex, userVars, wireVars, hookVars>>

\* one iteration of the for loop: the transport call for parts[i]; a failed
\* call throws into the catch block, which returns null
SendPart ==
    /\ spc = "send"
    /\ i < Len(parts)
    /\ sent' = Append(sent, PartHeader(i, Len(parts)) \o parts[i + 1])
    /\ \E ok \in BOOLEAN :
         IF ~ok
         THEN /\ sendRet' = "null"
              /\ spc' = "done"
              /\ i' = i
         ELSE /\ sendRet' = sendRet
              /\ IF i < Len(parts) - 1
                 THEN spc' = "delay" /\ i' = i
                 ELSE spc' = "send" /\ i' = i + 1
    /\ UNCHANGED <<text, maxLength, caller, remaining, parts, splitIndex, userVars, wireVars, hookVars>>

\* a slip: the loop index is advanced once more after the delay
DelaySkip ==
    /\ spc = "delay"
    /\ i' = i + 2
    /\ spc' = "send"
    /\ UNCHANGED <<text, maxLength, caller, remaining, parts, splitIndex, sent,
                   sendRet, userVars, wireVars, hookVars>>

\* await new Promise(resolve => setTimeout(resolve, 1000)), then i++
Delay ==
    /\ spc = "delay"
    /\ i' = i + 1
    /\ spc' = "send"
    /\ UNCHANGED <<text, maxLength, caller, remaining, parts, splitIndex, sent,
                   sendRet, userVars, wireVars, hookVars>>

\* the for loop is over: return { success: true, parts: parts.length }
SendReturn ==
    /\ spc = "send"
    /\ i >= Len(parts)
    /\ sendRet' = "ok"
    /\ spc' = "done"
    /\ UNCHANGED <<text, maxLength, caller, remaining, parts, splitIndex, i, sent,
                   userVars, wireVars, hookVars>>

-----------------------------------------------------------------------------
(* app.post('/webhook', ...): the handler of the inbound webhook            *)

\* a property of the payload that is missing (undefined in the code)
Missing == [defined |-> FALSE, items |-> <<>>]

\* what the forEach calls of the handler did: the processMetaMessage calls
\* made, and whether a TypeError was thrown
Walked(made, error) == [calls |-> made, threw |-> error]

\* const value = change.value; if (value.messages && value.messages.length > 0)
\* value.messages.forEach(message => processMetaMessage(message, value));
\* reading .messages of a missing value throws
WalkValue(value) ==
    IF ~value.defined THEN Walked(<<>>, TRUE)
    ELSE IF value.messages.defined THEN Walked(value.messages.items, FALSE)
    ELSE Walked(<<>>, FALSE)

\* if (change.field === 'messages') {...}
WalkChange(change) ==
    IF change.field = "messages" THEN WalkValue(change.value) ELSE Walked(<<>>, FALSE)

\* changes.forEach(change => {...}): a throw ends the iteration
RECURSIVE WalkChanges(_)
WalkChanges(changes) ==
    IF changes = <<>> THEN Walked(<<>>, FALSE)
    ELSE LET first == WalkChange(Head(changes))
             rest == WalkChanges(Tail(changes))
         IN  IF first.threw THEN first
             ELSE Walked(first.calls \o rest.calls, rest.threw)

\* const changes = entry.changes || []
WalkEntry(entry) ==
    WalkChanges(IF entry.changes.defined THEN entry.changes.items ELSE <<>>)

RECURSIVE WalkItems(_)
WalkItems(entries) ==
    IF entries = <<>> THEN Walked(<<>>, FALSE)
    ELSE LET first == WalkEntry(Head(entries))
             rest == WalkItems(Tail(entries))
         IN  IF first.threw THEN first
             ELSE Walked(first.calls \o rest.calls, rest.threw)

\* body.entry.forEach(entry => {...}): calling forEach of a missing entry
\* list throws
WalkEntries(entry) ==
    IF entry.defined THEN WalkItems(entry.items) ELSE Walked(<<>>, TRUE)

\* express calls the handler with the parsed body of a POST /webhook request
Receive(payload) ==
    /\ hpc = "idle"
    /\ req' = payload
    /\ hpc' = "try"
    /\ responses' = <<>>
    /\ calls' = <<>>
    /\ UNCHANGED <<splitVars, userVars, wireVars>>

\* res.status(200).send('OK'), in the branch of a WhatsApp payload and in the
\* else branch
Acknowledge ==
    /\ hpc = "try"
    /\ responses' = Append(responses, 200)
    /\ hpc' = IF req.object = "whatsapp_business_account" THEN "forEach" ELSE "end"
    /\ UNCHANGED <<req, calls, splitVars, userVars, wireVars>>

\* body.entry.forEach(...): synchronous; processMetaMessage is called, not
\* awaited, for every message reached before a throw
ProcessEntries ==
    /\ hpc = "forEach"
    /\ calls' = WalkEntries(req.entry).calls
    /\ hpc' = IF WalkEntries(req.entry).threw THEN "catch" ELSE "end"
    /\ UNCHANGED <<req, responses, splitVars, userVars, wireVars>>

\* catch (error) { res.status(500).send('Error processing webhook') }
Catch ==
    /\ hpc = "catch"
    /\ responses' = Append(responses, 500)
    /\ hpc' = "end"
    /\ UNCHANGED <<req, calls, splitVars, userVars, wireVars>>

\* the handler returns: req and res are dropped
Return ==
    /\ hpc = "end"
    /\ hpc' = "idle"
    /\ req' = <<>>
    /\ responses' = <<>>
    /\ calls' = <<>>
    /\ UNCHANGED <<splitVars, userVars, wireVars>>

-----------------------------------------------------------------------------
(* sendMetaWhatsAppMessage called by requests that are in progress at the   *)
(* same time: each call runs the for loop of the sender on its own parts,   *)
(* all calls post to the one transport                                      *)

\* position of a request's sender call: its place in the code, the number of
\* parts of its reply and the loop index
NotSending == [at |-> "idle", n |-> 0, i |-> 0]

\* the webhook handler starts processMetaMessage for each message without
\* awaiting it; the processing reaches a sendMetaWhatsAppMessage call whose
\* text gives n parts (n = 1: the text fits in one message)
BeginReply(r, n) ==
    /\ sending[r].at = "idle"
    /\ sending' = [sending EXCEPT ![r] = [at |-> "post", n |-> n, i |-> 0]]
    /\ UNCHANGED <<wire, lossy, returns, splitVars, userVars, hookVars>>

\* await axios.post(...) for parts[i]; a failed call ends the sender
Post(r) ==
    /\ sending[r].at = "post"
    /\ wire' = Append(wire, [reply |-> r, part |-> sending[r].i + 1, of |-> sending[r].n])
    /\ \E ok \in BOOLEAN :
         sending' = [sending EXCEPT ![r].at =
                        IF ok /\ sending[r].i < sending[r].n - 1 THEN "delay" ELSE "done"]
    /\ UNCHANGED <<lossy, returns, splitVars, userVars, hookVars>>

\* await new Promise(resolve => setTimeout(resolve, 1000)), then i++
Wait(r) ==
    /\ sending[r].at = "delay"
    /\ sending' = [sending EXCEPT ![r].at = "post", ![r].i = @ + 1]
    /\ UNCHANGED <<wire, lossy, returns, splitVars, userVars, hookVars>>

-----------------------------------------------------------------------------
(* UserManager: the users table and the pure helpers *)

Phones == {"u1"}
Requests == 1..MaxInFlight

\* the values of the language_preference column
Preferences == {"pending", "english", "hindi", "gujarati"}

UpperCase == <<"A","B","C","D","E","F","G","H","I","J","K","L","M",
               "N","O","P","Q","R","S","T","U","V","W","X","Y","Z">>
LowerCase == <<"a","b","c","d","e","f","g","h","i","j","k","l","m",
               "n","o","p","q","r","s","t","u","v","w","x","y","z">>

\* String.prototype.toLowerCase
ToLowerCase(s) ==
    [k \in 1..Len(s) |->
        IF \E u \in 1..26 : UpperCase[u] = s[k]
        THEN LowerCase[CHOOSE u \in 1..26 : UpperCase[u] = s[k]]
        ELSE s[k]]

\* const cleanMessage = message.trim().toLowerCase()
CleanMessage(message) == ToLowerCase(Trim(message))

TokEnglish  == <<"e","n","g","l","i","s","h">>
TokEng      == <<"e","n","g">>
TokHindi    == <<"h","i","n","d","i">>
TokHin      == <<"h","i","n">>
TokGujarati == <<"g","u","j","a","r","a","t","i">>
TokGuj      == <<"g","u","j">>

\* the languageCommands array of isLanguageCommand
languageCommands == {TokEnglish, TokHindi, TokGujarati, TokEng, TokHin, TokGuj}

\* a slip: includes() is applied to the message instead of the array
isLanguageCommandContains(message) ==
    \E t \in languageCommands : Occurrences(CleanMessage(message), t) # {}

\* return languageCommands.includes(cleanMessage)
isLanguageCommand(message) == CleanMessage(message) \in languageCommands

\* parseLanguage; "null" stands for null
parseLanguage(message) ==
    LET cleanMessage == CleanMessage(message)
    IN  IF cleanMessage \in {TokEnglish, TokEng} THEN "english"
        ELSE IF cleanMessage \in {TokHindi, TokHin} THEN "hindi"
        ELSE IF cleanMessage \in {TokGujarati, TokGuj} THEN "gujarati"
        ELSE "null"

\* the inbound message bodies of the model
MsgEnglish  == TokEnglish
MsgHindi    == TokHindi
MsgHindiRaw == <<" ","H","i","n","d","i","\n">>
MsgGuj      == <<"G","U","J">>
MsgQuery    == <<" ","R","e","l","i","a","n","c","e"," ","T","C","S"," ">>
MsgContains == <<"h","i","n","d","i"," ","T","C","S">>
MsgBlank    == <<" "," ">>

Messages == {MsgEnglish, MsgHindi, MsgHindiRaw, MsgGuj, MsgQuery, MsgContains, MsgBlank}

\* a slip: the INSERT leaves language_preference unset
NewRowUnset == [language_preference |-> "null", message_count |-> 1]

\* INSERT INTO users (phone_number, language_preference, message_count)
\* VALUES (?, 'pending', 1)
NewRow == [language_preference |-> "pending", message_count |-> 1]

\* SELECT * FROM users WHERE phone_number = ?  (<<>> stands for no row)
RowOf(table, ph) == IF ph \in DOMAIN table THEN <<table[ph]>> ELSE <<>>

\* a slip: the activity update also writes the column default back
ActivityUpdateResets(table, ph) ==
    IF ph \in DOMAIN table
    THEN [table EXCEPT ![ph].message_count = @ + 1,
                       ![ph].language_preference = "pending"]
    ELSE table

\* a slip: the activity update leaves message_count alone
ActivityUpdateSkipped(table, ph) == table

\* UPDATE users SET message_count = message_count + 1 WHERE phone_number = ?
ActivityUpdate(table, ph) ==
    IF ph \in DOMAIN table
    THEN [table EXCEPT ![ph].message_count = @ + 1]
    ELSE table

\* a slip: the preference is written only while it is still pending
PreferenceUpdateOnlyPending(table, ph, language) ==
    IF ph \in DOMAIN table /\ table[ph].language_preference = "pending"
    THEN [table EXCEPT ![ph].language_preference = language]
    ELSE table

\* UPDATE users SET language_preference = ? WHERE phone_number = ?
PreferenceUpdate(table, ph, language) ==
    IF ph \in DOMAIN table
    THEN [table EXCEPT ![ph].language_preference = language]
    ELSE table

\* a fixed reply text: which text it is and the language it is written in
Text(kind, language) == [kind |-> kind, language |-> language]

NoText == Text("undefined", "undefined")

\* language === 'english' ? <English> : language === 'hindi' ? <Hindi> : <Gujarati>
ConfirmationText(language) ==
    IF language = "english" THEN Text("confirmation", "english")
    ELSE IF language = "hindi" THEN Text("confirmation", "hindi")
    ELSE Text("confirmation", "gujarati")

\* the objects handleLanguagePreference returns; a field the object does not
\* have is FALSE (needsLanguagePreference) or undefined
LanguageSet(language) ==
    [isLanguageCommand |-> TRUE, needsLanguagePreference |-> FALSE,
     language |-> language, message |-> ConfirmationText(language)]

NeedsOnboarding ==
    [isLanguageCommand |-> FALSE, needsLanguagePreference |-> TRUE,
     language |-> "undefined", message |-> Text("welcome_prompt", "english+hindi")]

Ready(language) ==
    [isLanguageCommand |-> FALSE, needsLanguagePreference |-> FALSE,
     language |-> language, message |-> NoText]

\* the object the catch block of handleLanguagePreference returns
Fallback ==
    [isLanguageCommand |-> FALSE, needsLanguagePreference |-> TRUE,
     language |-> "undefined", message |-> Text("default_prompt", "english")]

\* no object yet: the call has not returned
NoResult ==
    [isLanguageCommand |-> FALSE, needsLanguagePreference |-> FALSE,
     language |-> "undefined", message |-> NoText]

\* userLanguage === 'english' ? <English text> : <Hindi text>
TextLanguage(language) == IF language = "english" THEN "english" ELSE "hindi"

\* whether a store or analysis call may succeed / fail
Outcomes == IF faults THEN {TRUE, FALSE} ELSE {TRUE}

-----------------------------------------------------------------------------
(* UserManager.getUserLanguagePreference / handleLanguagePreference and     *)
(* processMessageWithLanguageSupport, one action per awaited call           *)

RECURSIVE SumOver(_, _)
SumOver(f, S) ==
    IF S = {} THEN 0
    ELSE LET x == CHOOSE y \in S : TRUE IN f[x] + SumOver(f, S \ {x})

Idle == {r \in Requests : pc[r] = "idle"}

reqVars == <<phone, msg, before, started>>

\* the webhook hands a text message to processMetaMessage, which calls
\* processMessageWithLanguageSupport -> handleLanguagePreference ->
\* getUserLanguagePreference -> getUser
Start(r, ph, m) ==
    /\ Idle # {}
    /\ r = Min(Idle)
    /\ concurrent \/ Idle = Requests
    /\ SumOver(started, Phones) < MaxCalls
    /\ pc' = [pc EXCEPT ![r] = "getUser"]
    /\ stage' = [stage EXCEPT ![r] = "handle"]
    /\ phone' = [phone EXCEPT ![r] = ph]
    /\ msg' = [msg EXCEPT ![r] = m]
    /\ user' = [user EXCEPT ![r] = <<>>]
    /\ userLanguage' = [userLanguage EXCEPT ![r] = "undefined"]
    /\ result' = [result EXCEPT ![r] = NoResult]
    /\ stockNames' = [stockNames EXCEPT ![r] = <<>>]
    /\ outbox' = [outbox EXCEPT ![r] = <<>>]
    /\ before' = [before EXCEPT ![r] = RowOf(users, ph)]
    /\ ops' = [ops EXCEPT ![r] = <<>>]
    /\ faulted' = [faulted EXCEPT ![r] = FALSE]
    /\ started' = [started EXCEPT ![ph] = @ + 1]
    /\ returns' = [returns EXCEPT ![r] = <<>>]
    /\ UNCHANGED <<users, users0, lastCall, clean, concurrent, faults, splitVars, netVars, hookVars>>

\* what sendMetaWhatsAppMessage returns to the await: { success: true, ... }
\* or, from its catch block, null
SendReturns == IF lossy THEN {"ok", "null"} ELSE {"ok"}

\* the sender calls awaited in a step of request r have returned; the caller
\* does not read what they return
Awaited(r) ==
    \E rets \in [1..(Len(outbox'[r]) - Len(outbox[r])) -> SendReturns] :
        returns' = [returns EXCEPT ![r] = @ \o rets]

\* a slip: the reply is built but never handed to the sender
SendMessageDropped(box, messageText) == box

\* await sendMetaWhatsAppMessage(messageText, fromNumber)
SendMessage(box, messageText) == Append(box, messageText)

\* userLanguage === 'english' ? <English error text> : <Hindi error text>
ErrorText(language) == Text("error", TextLanguage(language))

\* handleLanguagePreference after the lookup: a recognised command goes on to
\* setLanguagePreference, anything else returns at once
IsCommand(message) == isLanguageCommand(message) /\ parseLanguage(message) # "null"

\* a slip: the pending check is missing
NonCommandResultNoGate(language) == Ready(language)

\* the object returned for a message that is not a command
NonCommandResult(language) ==
    IF language = "pending" THEN NeedsOnboarding ELSE Ready(language)

\* a slip: a failed lookup falls back to a language instead of pending
DefaultFallbackEnglish == "english"

\* return 'pending'; // Default fallback  (the catch block of
\* getUserLanguagePreference)
DefaultFallback == "pending"

\* getUserLanguagePreference returns `language` to its caller: the resolver
\* (stage "handle") branches on it, the error handler (stage "catch") picks
\* the error text and sends it
LookupDone(r, language) ==
    /\ userLanguage' = [userLanguage EXCEPT ![r] = language]
    /\ IF stage[r] = "catch"
       THEN /\ outbox' = [outbox EXCEPT ![r] = SendMessage(@, ErrorText(language))]
            /\ pc' = [pc EXCEPT ![r] = "finished"]
            /\ result' = result
       ELSE /\ outbox' = outbox
            /\ IF IsCommand(msg[r])
               THEN /\ pc' = [pc EXCEPT ![r] = "setLang"]
                    /\ result' = result
               ELSE /\ pc' = [pc EXCEPT ![r] = "resolved"]
                    /\ result' = [result EXCEPT ![r] = NonCommandResult(language)]

\* a store operation of request r failed with a database error
Fault(r) ==
    /\ faulted' = [faulted EXCEPT ![r] = TRUE]
    /\ clean' = [clean EXCEPT ![phone[r]] = FALSE]

\* let user = await this.getUser(phoneNumber)
GetUser(r) ==
    /\ pc[r] = "getUser"
    /\ \E ok \in Outcomes :
         IF ok
         THEN /\ user' = [user EXCEPT ![r] = RowOf(users, phone[r])]
              /\ pc' = [pc EXCEPT ![r] =
                          IF RowOf(users, phone[r]) = <<>> THEN "createUser"
                          ELSE "updateActivity"]
              /\ UNCHANGED <<userLanguage, result, outbox, faulted, clean>>
         ELSE /\ LookupDone(r, DefaultFallback)
              /\ Fault(r)
              /\ user' = user
    /\ UNCHANGED <<users, users0, stage, stockNames, ops, lastCall, reqVars,
                   concurrent, faults, splitVars, netVars, hookVars>>
    /\ Awaited(r)

\* user = await this.createUser(phoneNumber); return 'pending'
\* phone_number is the PRIMARY KEY: inserting an existing key is an error,
\* which getUserLanguagePreference catches like any other
CreateUser(r) ==
    /\ pc[r] = "createUser"
    /\ \E ok \in Outcomes :
         IF ok /\ phone[r] \notin DOMAIN users
         THEN /\ users' = (phone[r] :> NewRow) @@ users
              /\ ops' = [ops EXCEPT ![r] = Append(@, "createUser")]
              /\ LookupDone(r, "pending")
              /\ UNCHANGED <<faulted, clean>>
         ELSE /\ users' = users
              /\ ops' = ops
              /\ LookupDone(r, DefaultFallback)
              /\ IF ok THEN UNCHANGED <<faulted, clean>> ELSE Fault(r)
    /\ UNCHANGED <<users0, stage, user, stockNames, lastCall, reqVars,
                   concurrent, faults, splitVars, netVars, hookVars>>
    /\ Awaited(r)

\* await this.updateUserActivity(phoneNumber); return user.language_preference
UpdateUserActivity(r) ==
    /\ pc[r] = "updateActivity"
    /\ \E ok \in Outcomes :
         IF ok
         THEN /\ users' = ActivityUpdate(users, phone[r])
              /\ ops' = [ops EXCEPT ![r] = Append(@, "updateUserActivity")]
              /\ LookupDone(r, user[r][1].language_preference)
              /\ UNCHANGED <<faulted, clean>>
         ELSE /\ users' = users
              /\ ops' = ops
              /\ LookupDone(r, DefaultFallback)
              /\ Fault(r)
    /\ UNCHANGED <<users0, stage, user, stockNames, lastCall, reqVars,
                   concurrent, faults, splitVars, netVars, hookVars>>
    /\ Awaited(r)

\* await this.setLanguagePreference(phoneNumber, language); return {...};
\* a failure is caught by the catch block of handleLanguagePreference
SetLanguagePreference(r) ==
    /\ pc[r] = "setLang"
    /\ \E ok \in Outcomes :
         IF ok
         THEN /\ users' = PreferenceUpdate(users, phone[r], parseLanguage(msg[r]))
              /\ ops' = [ops EXCEPT ![r] = Append(@, "setLanguagePreference")]
              /\ result' = [result EXCEPT ![r] = LanguageSet(parseLanguage(msg[r]))]
              /\ UNCHANGED <<faulted, clean>>
         ELSE /\ users' = users
              /\ ops' = ops
              /\ result' = [result EXCEPT ![r] = Fallback]
              /\ Fault(r)
    /\ pc' = [pc EXCEPT ![r] = "resolved"]
    /\ UNCHANGED <<users0, stage, user, userLanguage, stockNames, outbox, lastCall,
                   reqVars, concurrent, faults, splitVars, netVars, hookVars>>
    /\ Awaited(r)

\* a slip: the lower-cased copy made for command matching is used as the query
StockNamesLowered(messageBody) == CleanMessage(messageBody)

\* const stockNames = messageBody.trim()
StockNamesOf(messageBody) == Trim(messageBody)

\* a slip: the needsLanguagePreference branch is missing
ReturnsEarlyCommandOnly(languageResult) == languageResult.isLanguageCommand

\* if (languageResult.isLanguageCommand) {...; return}
\* if (languageResult.needsLanguagePreference) {...; return}
ReturnsEarly(languageResult) ==
    languageResult.isLanguageCommand \/ languageResult.needsLanguagePreference

\* processMessageWithLanguageSupport once handleLanguagePreference returned:
\* the confirmation or the prompt is sent and the function returns; otherwise
\* the empty-message text, or the acknowledgment followed by analyzeStocks
Dispatch(r) ==
    /\ pc[r] = "resolved"
    /\ lastCall' = [lastCall EXCEPT ![phone[r]] =
                      <<[msg |-> msg[r], result |-> result[r], faulted |-> faulted[r]]>>]
    /\ IF ReturnsEarly(result[r])
       THEN /\ outbox' = [outbox EXCEPT ![r] = SendMessage(@, result[r].message)]
            /\ pc' = [pc EXCEPT ![r] = "finished"]
            /\ stockNames' = stockNames
       ELSE /\ stockNames' = [stockNames EXCEPT ![r] = StockNamesOf(msg[r])]
            /\ IF StockNamesOf(msg[r]) = <<>>
               THEN /\ outbox' = [outbox EXCEPT ![r] =
                                    SendMessage(@, Text("empty", TextLanguage(result[r].language)))]
                    /\ pc' = [pc EXCEPT ![r] = "finished"]
               ELSE /\ outbox' = [outbox EXCEPT ![r] =
                                    SendMessage(@, Text("ack", TextLanguage(result[r].language)))]
                    /\ pc' = [pc EXCEPT ![r] = "analyze"]
    /\ UNCHANGED <<users, users0, stage, user, userLanguage, result, ops, faulted,
                   clean, reqVars, concurrent, faults, splitVars, netVars, hookVars>>
    /\ Awaited(r)

\* const analysisResult = await analyzeStocks(stockNames, userLanguage): the
\* result is sent, or the call throws into the catch block, which calls
\* getUserLanguagePreference again
AnalyzeStocks(r) ==
    /\ pc[r] = "analyze"
    /\ \E ok \in Outcomes :
         IF ok
         THEN /\ outbox' = [outbox EXCEPT ![r] =
                              SendMessage(@, Text("analysis", result[r].language))]
              /\ pc' = [pc EXCEPT ![r] = "finished"]
              /\ UNCHANGED <<stage, clean>>
         ELSE /\ outbox' = outbox
              /\ pc' = [pc EXCEPT ![r] = "getUser"]
              /\ stage' = [stage EXCEPT ![r] = "catch"]
              /\ clean' = [clean EXCEPT ![phone[r]] = FALSE]
    /\ UNCHANGED <<users, users0, user, userLanguage, result, stockNames, ops,
                   faulted, lastCall, reqVars, concurrent, faults, splitVars, netVars, hookVars>>
    /\ Awaited(r)

\* processMessageWithLanguageSupport returns
Finish(r) ==
    /\ pc[r] = "finished"
    /\ pc' = [pc EXCEPT ![r] = "idle"]
    /\ UNCHANGED <<users, users0, stage, user, userLanguage, result, stockNames,
                   outbox, ops, faulted, lastCall, clean, reqVars, concurrent,
                   faults, splitVars, netVars, hookVars>>
    /\ Awaited(r)

-----------------------------------------------------------------------------
(* Specifications *)

\* the tables the server can find at start-up: each known user was created by
\* a first message and may have chosen a language with it
InitialTables ==
    UNION {[D -> {[language_preference |-> l, message_count |-> 1] : l \in Preferences}]
             : D \in SUBSET Phones}

\* the bodies handed to the splitter: up to n tokens, each a character of the
\* break markers, a letter, or the stock separator
Tokens == {<<"a">>, <<" ">>, <<"\n">>, <<"*">>, <<".">>, <<",">>, StockSeparator}

RECURSIVE Bodies(_)
Bodies(n) ==
    IF n = 0 THEN {<<>>}
    ELSE LET shorter == Bodies(n - 1)
         IN  shorter \cup {b \o t : b \in shorter, t \in Tokens}

SplitterIdle ==
    /\ text = <<>>
    /\ maxLength = 1
    /\ caller = "none"
    /\ spc = "off"
    /\ remaining = <<>>
    /\ parts = <<>>
    /\ splitIndex = 0
    /\ i = 0
    /\ sent = <<>>
    /\ sendRet = "none"

SplitterInit ==
    /\ text \in Bodies(MaxTokens)
    /\ maxLength \in 1..MaxChunkSize
    /\ caller = "none"
    /\ spc = "start"
    /\ remaining = <<>>
    /\ parts = <<>>
    /\ splitIndex = 0
    /\ i = 0
    /\ sent = <<>>
    /\ sendRet = "none"

ResolverStart(table, overlap, mayFail, mayLose) ==
    /\ users = table
    /\ users0 = table
    /\ pc = [r \in Requests |-> "idle"]
    /\ stage = [r \in Requests |-> "handle"]
    /\ phone = [r \in Requests |-> CHOOSE ph \in Phones : TRUE]
    /\ msg = [r \in Requests |-> <<>>]
    /\ user = [r \in Requests |-> <<>>]
    /\ userLanguage = [r \in Requests |-> "undefined"]
    /\ result = [r \in Requests |-> NoResult]
    /\ stockNames = [r \in Requests |-> <<>>]
    /\ outbox = [r \in Requests |-> <<>>]
    /\ before = [r \in Requests |-> <<>>]
    /\ ops = [r \in Requests |-> <<>>]
    /\ faulted = [r \in Requests |-> FALSE]
    /\ lastCall = [ph \in Phones |-> <<>>]
    /\ started = [ph \in Phones |-> 0]
    /\ clean = [ph \in Phones |-> TRUE]
    /\ concurrent = overlap
    /\ faults = mayFail
    /\ wire = <<>>
    /\ sending = [r \in Requests |-> NotSending]
    /\ lossy = mayLose
    /\ returns = [r \in Requests |-> <<>>]
    /\ req = <<>>
    /\ hpc = "idle"
    /\ responses = <<>>
    /\ calls = <<>>

\* the same with a transport that never fails
ResolverInit(table, overlap, mayFail) == ResolverStart(table, overlap, mayFail, FALSE)

SplitNext ==
    \/ CallSplit
    \/ SplitStep
    \/ SplitReturn
    \/ SendEntry
    \/ SendPart
    \/ Delay
    \/ SendReturn

ResolverNext ==
    \/ \E r \in Requests, ph \in Phones, m \in Messages : Start(r, ph, m)
    \/ \E r \in Requests : GetUser(r)
    \/ \E r \in Requests : CreateUser(r)
    \/ \E r \in Requests : UpdateUserActivity(r)
    \/ \E r \in Requests : SetLanguagePreference(r)
    \/ \E r \in Requests : Dispatch(r)
    \/ \E r \in Requests : AnalyzeStocks(r)
    \/ \E r \in Requests : Finish(r)

\* the splitter and the sender applied to every body and limit of the bounds
SplitInit == SplitterInit /\ ResolverInit(<<>>, FALSE, FALSE)

SplitSpec == SplitInit /\ [][SplitNext]_vars

\* inbound messages resolved one after another; store calls and the analysis
\* may fail
SeqInit == SplitterIdle /\ \E table \in InitialTables : ResolverInit(table, FALSE, TRUE)

SeqSpec == SeqInit /\ [][ResolverNext]_vars

\* inbound messages resolved concurrently, as the webhook starts them without
\* awaiting; no store call and no analysis fails
ConcInit == SplitterIdle /\ \E table \in InitialTables : ResolverInit(table, TRUE, FALSE)

ConcSpec == ConcInit /\ [][ResolverNext]_vars

\* n times the character c
Run(c, n) == [k \in 1..n |-> c]

\* bodies built around the window of a limit: a run of letters, a marker (or
\* none), a short run of letters, a second marker (or none), a short tail
WindowBodies(limit) ==
    LET markers == {breakPoints[b] : b \in 1..Len(breakPoints)} \cup {<<>>}
    IN  {Run("a", j) \o m1 \o Run("b", k) \o m2 \o Run("c", l) :
            j \in 0..limit, m1 \in markers, k \in 0..MaxGap, m2 \in markers,
            l \in 0..MaxTail}

\* the splitter applied on its own to those bodies
WindowInit ==
    /\ text \in WindowBodies(WindowLimit)
    /\ maxLength = WindowLimit
    /\ caller = "none"
    /\ spc = "start"
    /\ remaining = <<>>
    /\ parts = <<>>
    /\ splitIndex = 0
    /\ i = 0
    /\ sent = <<>>
    /\ sendRet = "none"
    /\ ResolverInit(<<>>, FALSE, FALSE)

WindowNext ==
    \/ CallSplit
    \/ SplitStep
    \/ SplitReturn

WindowSpec == WindowInit /\ [][WindowNext]_vars

\* every awaited call of a request that was started returns or fails, and the
\* function goes on from there
Step(r) ==
    \/ GetUser(r)
    \/ CreateUser(r)
    \/ UpdateUserActivity(r)
    \/ SetLanguagePreference(r)
    \/ Dispatch(r)
    \/ AnalyzeStocks(r)
    \/ Finish(r)

Fairness == WF_vars(\E r \in Requests : Step(r))

\* conversations of at most MaxLiveCalls messages, resolved one after
\* another; store calls and the analysis may fail
LiveInit == SplitterIdle /\ \E table \in InitialTables : ResolverInit(table, FALSE, TRUE)

LiveNext ==
    \/ \E r \in Requests, ph \in Phones, m \in Messages :
          started[ph] < MaxLiveCalls /\ Start(r, ph, m)
    \/ \E r \in Requests : Step(r)

LiveSpec == LiveInit /\ [][LiveNext]_vars /\ Fairness

\* inbound message bodies around the language commands: every command and
\* some words that are nearly one, in lower case, in upper case and
\* capitalised, bare and padded with whitespace, and texts that contain a
\* command among other words
ToUpperCase(s) ==
    [k \in 1..Len(s) |->
        IF \E u \in 1..26 : LowerCase[u] = s[k]
        THEN UpperCase[CHOOSE u \in 1..26 : LowerCase[u] = s[k]]
        ELSE s[k]]

CommandInputs ==
    LET words == languageCommands \cup
                   {<<"e","n">>, <<"h","i","n","d">>, <<"g","u","j","a","r","a","t">>,
                    <<"h","i","n","d","i","i">>}
        cased == UNION {{w, ToUpperCase(w),
                         ToUpperCase(SubSeq(w, 1, 1)) \o SubSeq(w, 2, Len(w))} : w \in words}
        padded == UNION {{w, <<" ">> \o w \o <<"\n">>, <<"\t", " ">> \o w} : w \in cased}
    IN  padded \cup {MsgQuery, MsgContains, MsgBlank, <<>>,
                     <<"T","C","S"," ","e","n","g">>,
                     <<"h","i","n"," ","d","i">>,
                     <<"e","n","g","l","i","s","h",".">>}

\* the first message of a conversation, drawn from those bodies; no store
\* call fails
CommandInit == SplitterIdle /\ \E table \in InitialTables : ResolverInit(table, FALSE, FALSE)

CommandNext ==
    \/ \E r \in Requests, ph \in Phones, m \in CommandInputs :
          started[ph] = 0 /\ Start(r, ph, m)
    \/ \E r \in Requests : GetUser(r)
    \/ \E r \in Requests : CreateUser(r)
    \/ \E r \in Requests : UpdateUserActivity(r)
    \/ \E r \in Requests : SetLanguagePreference(r)
    \/ \E r \in Requests : Dispatch(r)
    \/ \E r \in Requests : AnalyzeStocks(r)
    \/ \E r \in Requests : Finish(r)

CommandSpec == CommandInit /\ [][CommandNext]_vars

\* requests in progress at the same time, each sending one reply of up to
\* MaxParts parts to the same recipient
WireInit == SplitterIdle /\ ResolverInit(<<>>, TRUE, FALSE)

WireNext ==
    \/ \E r \in Requests, n \in 1..MaxParts : BeginReply(r, n)
    \/ \E r \in Requests : Post(r)
    \/ \E r \in Requests : Wait(r)

WireSpec == WireInit /\ [][WireNext]_vars

\* a sender call whose transport may fail, followed either call by call (the
\* sender on a text of its own) or from the orchestration, which awaits the
\* call and gets what it returns
DeliverInit ==
    \/ /\ text \in Bodies(MaxTokens - 1)
       /\ maxLength \in 1..MaxChunkSize
       /\ caller = "none"
       /\ spc = "start"
       /\ remaining = <<>>
       /\ parts = <<>>
       /\ splitIndex = 0
       /\ i = 0
       /\ sent = <<>>
       /\ sendRet = "none"
       /\ ResolverStart(<<>>, FALSE, TRUE, TRUE)
    \/ /\ SplitterIdle
       /\ \E table \in InitialTables : ResolverStart(table, FALSE, TRUE, TRUE)

DeliverNext ==
    \/ SplitNext
    \/ spc = "off" /\ ResolverNext

DeliverSpec == DeliverInit /\ [][DeliverNext]_vars

\* the lists of at most n elements of S
RECURSIVE Lists(_, _)
Lists(S, n) ==
    IF n = 0 THEN {<<>>}
    ELSE LET shorter == Lists(S, n - 1)
         IN  shorter \cup {l \o <<x>> : l \in shorter, x \in S}

\* a list property of the payload: missing, or a list of at most n elements
OptionalList(S, n) == {Missing} \cup {[defined |-> TRUE, items |-> l] : l \in Lists(S, n)}

\* the payloads POSTed to /webhook: any object, with the properties the
\* handler reads present or missing
Values ==
    {[defined |-> FALSE, messages |-> Missing]}
        \cup {[defined |-> TRUE, messages |-> m] :
                m \in OptionalList([type : {"text", "image"}], MaxItems)}

Changes == [field : {"messages", "statuses"}, value : Values]

Entries == [changes : OptionalList(Changes, MaxItems)]

Payloads ==
    [object : {"whatsapp_business_account", "page", "instagram", "undefined"},
     entry : OptionalList(Entries, MaxItems)]

WebhookInit == SplitterIdle /\ ResolverInit(<<>>, TRUE, FALSE)

WebhookNext ==
    \/ \E payload \in Payloads : Receive(payload)
    \/ Acknowledge
    \/ ProcessEntries
    \/ Catch
    \/ Return

WebhookSpec == WebhookInit /\ [][WebhookNext]_vars

\* the splitter applied on its own to every body and limit of the bounds; the
\* function runs without interruption, so a step that can be taken is taken
TermNext ==
    \/ CallSplit
    \/ SplitStep
    \/ SplitReturn

TermInit ==
    /\ text \in Bodies(MaxTokens - 2)
    /\ maxLength \in 1..MaxChunkSize
    /\ caller = "none"
    /\ spc = "start"
    /\ remaining = <<>>
    /\ parts = <<>>
    /\ splitIndex = 0
    /\ i = 0
    /\ sent = <<>>
    /\ sendRet = "none"
    /\ ResolverInit(<<>>, FALSE, FALSE)

TermSpec == TermInit /\ [][TermNext]_vars /\ WF_vars(TermNext)

\* the splitter applied on its own with a chunk size limit that is not
\* positive; the function has no check of maxLength, so the while loop runs
InvalidInit ==
    /\ text \in Bodies(MaxTokens)
    /\ maxLength \in (0 - MaxInvalid)..0
    /\ caller = "none"
    /\ spc = "start"
    /\ remaining = <<>>
    /\ parts = <<>>
    /\ splitIndex = 0
    /\ i = 0
    /\ sent = <<>>
    /\ sendRet = "none"
    /\ ResolverInit(<<>>, FALSE, FALSE)

InvalidNext ==
    \/ CallSplit
    \/ Len(parts) < MaxIterations /\ SplitStep
    \/ SplitReturn

InvalidSpec == InvalidInit /\ [][InvalidNext]_vars

-----------------------------------------------------------------------------
(* Properties of the segmenter and the sender, checked under SplitSpec *)

\* the splitter has returned its parts
SplitReturned ==
    /\ spc \in {"send", "delay", "done"}
    /\ caller = "split" \/ Len(text) > maxLength

\* t without its leading and trailing whitespace characters
Core(t) ==
    LET solid == {k \in 1..Len(t) : t[k] \notin Whitespace}
    IN  IF solid = {} THEN <<>> ELSE SubSeq(t, Min(solid), Max(solid))

AllWhitespace(t) == \A k \in 1..Len(t) : t[k] \in Whitespace

IsPrefix(c, t) == Len(c) <= Len(t) /\ SubSeq(t, 1, Len(c)) = c

\* t is the chunks in order, with a (possibly empty) run of whitespace
\* reinserted at each boundary between two chunks and nothing else
RECURSIVE Rejoins(_, _)
Rejoins(chunks, t) ==
    IF chunks = <<>> THEN t = <<>>
    ELSE /\ IsPrefix(Head(chunks), t)
         /\ LET rest == SubSeq(t, Len(Head(chunks)) + 1, Len(t))
            IN  IF Len(chunks) = 1 THEN rest = <<>>
                ELSE \E k \in 0..Len(rest) :
                        /\ AllWhitespace(SubSeq(rest, 1, k))
                        /\ Rejoins(Tail(chunks), SubSeq(rest, k + 1, Len(rest)))

\* the chunks one after another, nothing in between
RECURSIVE Flatten(_)
Flatten(chunks) ==
    IF chunks = <<>> THEN <<>> ELSE Head(chunks) \o Flatten(Tail(chunks))

\* C1: every chunk the splitter produces has length <= maxChunkSize, measured
\* before any "(i/n) " prefix is added.
C1_SizeBound == \A k \in 1..Len(parts) : Len(parts[k]) <= maxLength

\* C2 as stated: re-joining the chunks in order, reinserting at each boundary
\* the separator that was trimmed there, reproduces the body exactly.
C2_RoundTripExact == SplitReturned => Rejoins(parts, text)

\* C2 amended: the re-joined chunks reproduce the body exactly when it fits in
\* one chunk, and otherwise the body without its leading and trailing
\* whitespace; between two chunks only whitespace is ever missing.
C2_RoundTripTrimmed ==
    SplitReturned =>
        Rejoins(parts, IF Len(text) <= maxLength THEN text ELSE Core(text))

\* a body with leading whitespace was split into several chunks and
\* whitespace was consumed between two of them
C2_Witness ==
    /\ SplitReturned
    /\ Len(parts) >= 2
    /\ text[1] \in Whitespace
    /\ Flatten(parts) # Core(text)

\* C3: a body no longer than maxChunkSize comes back as the one-element
\* sequence holding it unchanged and untrimmed, and the empty body comes back
\* as the empty sequence.
C3_ShortInput ==
    (caller = "split" /\ spc = "done" /\ Len(text) <= maxLength) =>
        parts = IF text = <<>> THEN <<>> ELSE <<text>>

\* a short body with surrounding whitespace went through the splitter
C3_Witness ==
    /\ caller = "split"
    /\ spc = "done"
    /\ Len(text) = 3
    /\ Len(text) <= maxLength
    /\ text[1] \in Whitespace
    /\ text[3] \in Whitespace
    /\ parts = <<text>>

\* C4: the k-th message handed to the transport is chunk k prefixed with
\* "(k/n) ", n the total number of chunks, when the reply was split into
\* n > 1 chunks; a reply that yields a single chunk is sent unprefixed.
C4_OrderingLabels ==
    caller = "send" =>
        IF Len(text) <= maxLength
        THEN sent \in {<<>>, <<text>>}
        ELSE /\ Len(sent) > 0 => SplitReturned
             /\ Len(sent) <= Len(parts)
             /\ \A k \in 1..Len(sent) :
                   sent[k] =
                     IF Len(parts) > 1
                     THEN <<"(">> \o Digits(k) \o <<"/">> \o Digits(Len(parts))
                            \o <<")", " ">> \o parts[k]
                     ELSE parts[k]

\* a reply of at least three chunks was delivered completely
C4_Witness ==
    /\ caller = "send"
    /\ spc = "done"
    /\ sendRet = "ok"
    /\ Len(parts) >= 3
    /\ Len(sent) = Len(parts)
    /\ SubSeq(sent[3], 1, 6) = <<"(", "3", "/", DigitChars[Len(parts) + 1], ")", " ">>

\* a step of the sender handed one more body to the transport
Posted == Len(sent') = Len(sent) + 1

\* C17: for one reply split into n chunks the transport calls are issued in
\* chunk order 1..n, one at a time, each after the one before it has
\* completed; the sender waits between two consecutive chunks and does not
\* wait after the last.
C17_SequentialDelivery ==
    [][caller' = "send" =>
         /\ sent' = sent \/ Posted
         /\ (Posted /\ Len(text) > maxLength) =>
               /\ spc = "send"
               /\ sent' = Append(sent, PartHeader(Len(sent), Len(parts))
                                         \o parts[Len(sent) + 1])
               /\ (sendRet' # "null" /\ Len(sent') < Len(parts)) => spc' = "delay"
               /\ Len(sent') = Len(parts) => spc' # "delay"
               /\ Len(sent) > 0 => i = Len(sent)
         /\ spc = "delay" =>
               /\ 0 < Len(sent) /\ Len(sent) < Len(parts)
               /\ sent' = sent
               /\ spc' = "send"
               /\ i' = Len(sent)]_vars

\* the sender is waiting between the second and the third chunk of a reply
C17_Witness ==
    /\ caller = "send"
    /\ spc = "delay"
    /\ Len(parts) >= 3
    /\ Len(sent) = 2
    /\ i = 1

\* C26: every chunk the splitter returns is a non-empty string, also for
\* bodies made of or padded with runs of whitespace, so the multi-part sender
\* hands no empty chunk to the transport.
C26_NoEmptyChunk ==
    /\ \A k \in 1..Len(parts) : parts[k] # <<>>
    /\ (caller = "send" /\ Len(text) > maxLength) =>
          \A k \in 1..Len(sent) : sent[k] # PartHeader(k - 1, Len(parts))

\* t with every whitespace character removed
RECURSIVE Squeeze(_)
Squeeze(t) ==
    IF t = <<>> THEN <<>>
    ELSE IF Head(t) \in Whitespace THEN Squeeze(Tail(t))
    ELSE <<Head(t)>> \o Squeeze(Tail(t))

\* C27: for a body longer than maxChunkSize the chunks in order, all
\* whitespace removed, are the body with all whitespace removed: the splitter
\* drops whitespace only, and adds, duplicates and reorders nothing. The same
\* holds during the loop for the chunks so far followed by the remaining text.
C27_ContentPreserved ==
    /\ (spc = "loop" /\ Len(text) > maxLength) =>
          Squeeze(Flatten(parts) \o remaining) = Squeeze(text)
    /\ (SplitReturned /\ Len(text) > maxLength) =>
          /\ Squeeze(Flatten(parts)) = Squeeze(text)
          /\ Len(Flatten(parts)) <= Len(text)

\* a body was split into at least three chunks and lost two or more
\* whitespace characters
C27_Witness ==
    /\ SplitReturned
    /\ Len(text) > maxLength
    /\ Len(parts) >= 3
    /\ Len(Flatten(parts)) + 2 <= Len(text)
    /\ Squeeze(text) # <<>>

-----------------------------------------------------------------------------
(* Properties of the preference resolver, checked under SeqSpec *)

\* what each inbound message of the model is: the language a command selects
CommandLanguage ==
    (MsgEnglish :> "english") @@ (MsgHindi :> "hindi") @@
    (MsgHindiRaw :> "hindi") @@ (MsgGuj :> "gujarati")

Commands == DOMAIN CommandLanguage

Languages == {"english", "hindi", "gujarati"}

Prompts == {"welcome_prompt", "default_prompt"}

IsLanguageSet(res, language) ==
    /\ res.isLanguageCommand
    /\ res.language = language
    /\ res.message = Text("confirmation", language)

IsNeedsOnboarding(res) ==
    /\ ~res.isLanguageCommand
    /\ res.needsLanguagePreference
    /\ res.message.kind \in Prompts

IsReady(res, language) ==
    /\ ~res.isLanguageCommand
    /\ ~res.needsLanguagePreference
    /\ res.language = language

Stored(ph) == users[ph].language_preference

MessageCount(table, ph) == IF ph \in DOMAIN table THEN table[ph].message_count ELSE 0

\* C5: the last explicit language command wins: a command for language L
\* returns LANGUAGE_SET and leaves L stored, whatever the preference was; in
\* particular "english" and then "hindi" leave hindi stored and both calls
\* return LANGUAGE_SET.
C5_LastCommandWins ==
    \A r \in Requests :
        (pc[r] = "resolved" /\ ~faulted[r] /\ msg[r] \in Commands) =>
            /\ IsLanguageSet(result[r], CommandLanguage[msg[r]])
            /\ phone[r] \in DOMAIN users
            /\ Stored(phone[r]) = CommandLanguage[msg[r]]
            /\ \A prev \in {c \in {lastCall[phone[r]]} : c # <<>>} :
                  (prev[1].msg = MsgEnglish /\ ~prev[1].faulted /\ msg[r] = MsgHindi) =>
                      /\ IsLanguageSet(prev[1].result, "english")
                      /\ Stored(phone[r]) = "hindi"

\* "english" was resolved, then "hindi", and the second call has returned
C5_Witness ==
    \E r \in Requests :
        /\ pc[r] = "resolved"
        /\ ~faulted[r]
        /\ msg[r] = MsgHindi
        /\ lastCall[phone[r]] # <<>>
        /\ lastCall[phone[r]][1].msg = MsgEnglish
        /\ ~lastCall[phone[r]][1].faulted
        /\ before[r] # <<>>
        /\ before[r][1].language_preference = "english"
        /\ Stored(phone[r]) = "hindi"

\* C6: a non-command message from an identifier with no record returns
\* NEEDS_ONBOARDING, creates the record and leaves its preference pending;
\* every later non-command message returns NEEDS_ONBOARDING while the
\* preference is pending.
C6_OnboardingGate ==
    \A r \in Requests :
        (/\ pc[r] = "resolved"
         /\ ~faulted[r]
         /\ msg[r] \notin Commands
         /\ before[r] = <<>> \/ before[r][1].language_preference = "pending") =>
            /\ IsNeedsOnboarding(result[r])
            /\ phone[r] \in DOMAIN users
            /\ Stored(phone[r]) = "pending"
            /\ before[r] = <<>> => users[phone[r]].message_count = 1

\* a new identifier got the prompt for its first message and gets it again
\* for its second
C6_Witness ==
    \E r \in Requests :
        /\ pc[r] = "resolved"
        /\ ~faulted[r]
        /\ msg[r] = MsgQuery
        /\ phone[r] \notin DOMAIN users0
        /\ lastCall[phone[r]] # <<>>
        /\ lastCall[phone[r]][1].msg = MsgContains
        /\ lastCall[phone[r]][1].result.needsLanguagePreference
        /\ result[r].needsLanguagePreference
        /\ Stored(phone[r]) = "pending"

\* C7: for a user whose stored preference is a language L, a non-command
\* message returns READY with language L, and the query text used downstream
\* is the message trimmed, its case preserved.
C7_ReadyPath ==
    \A r \in Requests :
        (/\ ~faulted[r]
         /\ stage[r] = "handle"
         /\ msg[r] \notin Commands
         /\ before[r] # <<>>
         /\ before[r][1].language_preference \in Languages) =>
            /\ pc[r] = "resolved" =>
                  IsReady(result[r], before[r][1].language_preference)
            /\ pc[r] \in {"analyze", "finished"} =>
                  /\ IsReady(result[r], before[r][1].language_preference)
                  /\ stockNames[r] = Core(msg[r])

\* " Reliance TCS " from an English user is about to be analysed
C7_Witness ==
    \E r \in Requests :
        /\ pc[r] = "analyze"
        /\ msg[r] = MsgQuery
        /\ before[r] # <<>>
        /\ before[r][1].language_preference = "english"
        /\ result[r].language = "english"
        /\ stockNames[r] = <<"R","e","l","i","a","n","c","e"," ","T","C","S">>

\* C8 as stated: when a store operation of the call fails, the call returns
\* NEEDS_ONBOARDING with a prompt, for every message.
C8_FaultAlwaysOnboarding ==
    \A r \in Requests :
        (pc[r] = "resolved" /\ faulted[r]) => IsNeedsOnboarding(result[r])

\* C8 amended: when a store operation of the call fails, the call still
\* returns: NEEDS_ONBOARDING with a prompt, except that a language command
\* whose preference update itself succeeds returns LANGUAGE_SET.
C8_FaultFallback ==
    \A r \in Requests :
        (pc[r] = "resolved" /\ faulted[r]) =>
            IF msg[r] \in Commands /\ ops[r] # <<>>
                 /\ ops[r][Len(ops[r])] = "setLanguagePreference"
            THEN IsLanguageSet(result[r], CommandLanguage[msg[r]])
            ELSE IsNeedsOnboarding(result[r])

\* the preference update of a command failed and the default prompt came back
C8_Witness ==
    \E r \in Requests :
        /\ pc[r] = "resolved"
        /\ faulted[r]
        /\ msg[r] \in Commands
        /\ ops[r] = <<"updateUserActivity">>
        /\ result[r].needsLanguagePreference
        /\ result[r].message.kind = "default_prompt"

\* C9 as stated: each call performs exactly one write on the user's record,
\* whatever disposition it returns.
C9_ExactlyOneWrite ==
    \A r \in Requests :
        (pc[r] = "resolved" /\ ~faulted[r]) => Len(ops[r]) = 1

\* C9 amended: each call performs exactly one create-or-activity write before
\* the command / pending branching, and a call that returns LANGUAGE_SET
\* performs one more write after it, the preference update.
C9_WritesPerCall ==
    \A r \in Requests :
        (pc[r] = "resolved" /\ ~faulted[r]) =>
            LET first == IF before[r] = <<>> THEN "createUser" ELSE "updateUserActivity"
                count == IF before[r] = <<>> THEN 0 ELSE before[r][1].message_count
            IN  /\ ops[r] = IF msg[r] \in Commands
                            THEN <<first, "setLanguagePreference">>
                            ELSE <<first>>
                /\ result[r].isLanguageCommand <=> Len(ops[r]) = 2
                /\ MessageCount(users, phone[r]) = count + 1

\* a command from a known user: the activity update, then the preference update
C9_Witness ==
    \E r \in Requests :
        /\ pc[r] = "resolved"
        /\ ~faulted[r]
        /\ result[r].isLanguageCommand
        /\ ops[r] = <<"updateUserActivity", "setLanguagePreference">>

\* C14: every stored user record has a language_preference that is one of
\* pending, english, hindi, gujarati, never null or undefined, and a record
\* that was just created has the preference pending.
C14_PreferenceDomain ==
    /\ \A ph \in DOMAIN users : users[ph].language_preference \in Preferences
    /\ \A r \in Requests :
          ops[r] = <<"createUser">> =>
              /\ phone[r] \in DOMAIN users
              /\ Stored(phone[r]) = "pending"

\* a first message created the record, and the record is pending
C14_Witness ==
    \E r \in Requests :
        /\ before[r] = <<>>
        /\ ops[r] = <<"createUser">>
        /\ pc[r] = "resolved"
        /\ users[phone[r]] = [language_preference |-> "pending", message_count |-> 1]

\* C15: whenever handleLanguagePreference returns LANGUAGE_SET for language L
\* (no other call for the identifier in progress), a record for the
\* identifier exists and its language_preference is L at the moment of
\* return, also when the lookup or the create step of the call failed.
C15_LanguageSetPersisted ==
    \A r \in Requests :
        (pc[r] = "resolved" /\ result[r].isLanguageCommand) =>
            /\ phone[r] \in DOMAIN users
            /\ Stored(phone[r]) = result[r].language

\* C18: for a user whose stored preference is a language L, every fixed
\* text sent on the READY path (the acknowledgment, the empty-message prompt,
\* the error messages) is in language L, and the confirmation of a language
\* command is in the language just selected.
C18_PreferredLanguage ==
    \A r \in Requests : \A k \in 1..Len(outbox[r]) :
        /\ (/\ outbox[r][k].kind \in {"ack", "empty", "error"}
            /\ before[r] # <<>>
            /\ before[r][1].language_preference \in Languages
            /\ IsReady(result[r], before[r][1].language_preference)) =>
               outbox[r][k].language = before[r][1].language_preference
        /\ (outbox[r][k].kind = "confirmation" /\ msg[r] \in Commands) =>
               outbox[r][k].language = CommandLanguage[msg[r]]

\* analyzeStocks is being or has been awaited for request r
Analysed(r) ==
    \/ pc[r] = "analyze"
    \/ stage[r] = "catch"
    \/ \E k \in 1..Len(outbox[r]) : outbox[r][k].kind = "analysis"

\* C21: analyzeStocks is invoked for a message only when the resolver returned
\* READY and the trimmed message is not empty; when the disposition is
\* LANGUAGE_SET or NEEDS_ONBOARDING exactly one message, the confirmation or
\* the prompt, is sent, no acknowledgment is sent and the text is not used as
\* a stock query.
C21_AnalysisOnlyOnReady ==
    \A r \in Requests :
        /\ Analysed(r) =>
              /\ ~result[r].isLanguageCommand
              /\ ~result[r].needsLanguagePreference
              /\ Core(msg[r]) # <<>>
        /\ (result[r].isLanguageCommand \/ result[r].needsLanguagePreference) =>
              /\ stockNames[r] = <<>>
              /\ pc[r] = "resolved" => outbox[r] = <<>>
              /\ pc[r] \in {"finished", "idle"} =>
                    /\ outbox[r] = <<result[r].message>>
                    /\ result[r].message.kind \in {"confirmation"} \cup Prompts

\* a stock query from a user whose preference is pending was answered with
\* the prompt alone
C21_Witness ==
    \E r \in Requests :
        /\ pc[r] = "finished"
        /\ msg[r] = MsgQuery
        /\ ~faulted[r]
        /\ result[r].needsLanguagePreference
        /\ outbox[r] = <<Text("welcome_prompt", "english+hindi")>>
        /\ stockNames[r] = <<>>

\* C22: processed one after another with no persistence failure, every
\* inbound message adds exactly one to the record's message_count (which is 1
\* after the message that creates the record), whichever disposition it got
\* and also when the orchestration's error handler ran for it.
C22_MessageCounting ==
    \A r \in Requests :
        (pc[r] = "finished" /\ ~faulted[r]) =>
            MessageCount(users, phone[r]) =
                (IF before[r] = <<>> THEN 0 ELSE before[r][1].message_count) + 1

\* C23: a stored language_preference changes only in a call whose message is
\* a language command, and then to that command's language; a non-command
\* message leaves it unchanged, so a record is never removed and a
\* preference that is a language never becomes pending again.
C23_ChangesOnlyByCommand ==
    [][\A ph \in DOMAIN users :
          /\ ph \in DOMAIN users'
          /\ users[ph].language_preference \in Languages =>
                users'[ph].language_preference \in Languages
          /\ users'[ph].language_preference # users[ph].language_preference =>
                \E r \in Requests :
                    /\ phone[r] = ph
                    /\ pc[r] = "setLang"
                    /\ msg[r] \in Commands
                    /\ users'[ph].language_preference = CommandLanguage[msg[r]]]_vars

\* a stock query of a Gujarati user was processed to the end, error handler
\* included, and the preference is still gujarati
C23_Witness ==
    \E r \in Requests :
        /\ pc[r] = "finished"
        /\ stage[r] = "catch"
        /\ msg[r] = MsgQuery
        /\ before[r] # <<>>
        /\ before[r][1].language_preference = "gujarati"
        /\ Stored(phone[r]) = "gujarati"
        /\ users[phone[r]].message_count > before[r][1].message_count

-----------------------------------------------------------------------------
(* Properties of the orchestration, checked under LiveSpec *)

\* C16: every inbound text message handed to the orchestration eventually
\* causes at least one text to be handed to the sender, whatever the
\* disposition and whether or not store calls or the analysis fail.
C16_AlwaysReplies ==
    \A r \in Requests :
        (pc[r] = "getUser" /\ stage[r] = "handle" /\ outbox[r] = <<>>)
            ~> (outbox[r] # <<>>)

\* a request whose analysis and whose language lookup both failed ended with
\* the acknowledgment and an error text sent
C16_Witness ==
    \E r \in Requests :
        /\ pc[r] = "finished"
        /\ stage[r] = "catch"
        /\ faulted[r]
        /\ Len(outbox[r]) = 2
        /\ outbox[r][1].kind = "ack"
        /\ outbox[r][2].kind = "error"

-----------------------------------------------------------------------------
(* Properties of concurrent replies, checked under WireSpec *)

\* C28: when two inbound messages of one recipient are processed at the same
\* time, the parts of one multi-part reply are delivered contiguously: no
\* message of the other processing is sent between two parts of a reply.
C28_NoInterleaving ==
    \A a \in 1..Len(wire) : \A b \in a..Len(wire) :
        wire[a].reply = wire[b].reply =>
            \A c \in a..b : wire[c].reply = wire[a].reply

-----------------------------------------------------------------------------
(* Properties of a failing transport, checked under DeliverSpec *)

\* the kinds of the texts request r has handed to the sender
Kinds(r) == [k \in 1..Len(outbox[r]) |-> outbox[r][k].kind]

-----------------------------------------------------------------------------
(* Properties of the webhook handler, checked under WebhookSpec *)

\* C30: for every POST /webhook request, whatever the shape of its payload,
\* the handler sends exactly one HTTP response, never attempts a second one
\* after the 200 acknowledgment, and acknowledges before any message
\* processing starts.
C30_ExactlyOneResponse ==
    /\ Len(responses) <= 1
    /\ hpc = "end" => Len(responses) = 1
    /\ calls # <<>> => responses # <<>> /\ responses[1] = 200

-----------------------------------------------------------------------------
(* Properties of concurrent requests, checked under ConcSpec *)

\* C10: when k messages of one identifier are resolved concurrently, the
\* record's message_count after all of them equals its value before plus k.
C10_NoLostUpdates ==
    \A ph \in Phones :
        ((\A r \in Requests : pc[r] = "idle") /\ clean[ph]) =>
            MessageCount(users, ph) = MessageCount(users0, ph) + started[ph]

-----------------------------------------------------------------------------
(* Properties of the splitter called with a non-positive limit, checked     *)
(* under InvalidSpec                                                        *)

\* C11: called with maxChunkSize <= 0 the splitter signals an error: it
\* returns no sequence of chunks, it pushes no chunk and it does not loop.
C11_InvalidArgument ==
    (caller = "split" /\ maxLength <= 0) => (spc # "done" /\ parts = <<>>)

-----------------------------------------------------------------------------
(* Properties of single split steps, checked under WindowSpec *)

\* an iteration of the while loop has just run
SplitStepTaken == spc = "loop" /\ spc' = "loop" /\ Len(parts') = Len(parts) + 1

\* the indexes, from 70% of the limit up to the limit, at which the marker of
\* rank b occurs in rem, and the same without the index at exactly 70%
AtOrAfter70(rem, maxLen, b) ==
    {k \in Occurrences(rem, breakPoints[b]) : k * 10 >= maxLen * 7 /\ k <= maxLen}

After70(rem, maxLen, b) ==
    {k \in Occurrences(rem, breakPoints[b]) : k * 10 > maxLen * 7 /\ k <= maxLen}

Ranks == 1..Len(breakPoints)

RankedMarkers ==
    << <<"\n", "\n", "-", "-", "-", "\n", "\n">>, <<"\n", "\n">>, <<"\n", "*">>,
       <<"\n">>, <<".", " ">>, <<",", " ">>, <<" ">> >>

\* the indexes after 70% of the limit and up to the limit at which the marker
\* occurs in rem
Hits(rem, maxLen, marker) ==
    {k \in Occurrences(rem, marker) : k * 10 > maxLen * 7 /\ k <= maxLen}

\* the ranks of the markers that occur in the window of rem
Present(rem, maxLen) ==
    {b \in 1..Len(RankedMarkers) : Hits(rem, maxLen, RankedMarkers[b]) # {}}

\* C20: in each split step the marker used is the first of the ranked list
\* that occurs inside the window, and the split is placed right after the
\* last occurrence of that marker at or before the limit, even when a
\* lower-ranked marker occurs closer to the limit.
C20_RankBeatsProximity ==
    [][SplitStepTaken =>
        (Present(remaining, maxLength) # {} =>
            LET marker == RankedMarkers[Min(Present(remaining, maxLength))]
                last == Max({k \in Occurrences(remaining, marker) : k <= maxLength})
            IN  /\ splitIndex' = last + Len(marker)
                /\ parts' = Append(parts, Core(SubSeq(remaining, 1, last + Len(marker))))
                /\ remaining' =
                      Core(SubSeq(remaining, last + Len(marker) + 1, Len(remaining))))]_vars

\* the first step used a marker although a lower-ranked one occurs in the
\* window closer to the limit and would have given a later split
C20_Witness ==
    /\ spc = "loop"
    /\ Len(parts) = 1
    /\ Present(text, maxLength) # {}
    /\ LET first == Min(Present(text, maxLength))
           used == Max(Hits(text, maxLength, RankedMarkers[first]))
       IN  /\ splitIndex = used + Len(RankedMarkers[first])
           /\ \E b \in Present(text, maxLength) :
                 /\ b > first
                 /\ \E k \in Hits(text, maxLength, RankedMarkers[b]) :
                       /\ k > used
                       /\ k + Len(RankedMarkers[b]) > splitIndex

\* the rank of the newline-before-bullet marker
BulletRank == CHOOSE b \in 1..Len(RankedMarkers) : RankedMarkers[b] = <<"\n", "*">>

\* C24: when a split is made at the newline-before-bullet marker, the split
\* falls before the bullet: the "*" starts the next chunk and is not the last
\* character of the previous chunk.
C24_BulletsNotBroken ==
    [][SplitStepTaken =>
        ((/\ Present(remaining, maxLength) # {}
          /\ Min(Present(remaining, maxLength)) = BulletRank) =>
            LET last == Max(Hits(remaining, maxLength, RankedMarkers[BulletRank]))
            IN  /\ splitIndex' = last + 1
                /\ parts' = Append(parts, Core(SubSeq(remaining, 1, last)))
                /\ remaining' # <<>>
                /\ remaining'[1] = "*")]_vars

-----------------------------------------------------------------------------
(* Properties of command recognition, checked under CommandSpec *)

\* the language each command word selects
TokenLanguage ==
    (TokEnglish :> "english") @@ (TokEng :> "english") @@
    (TokHindi :> "hindi") @@ (TokHin :> "hindi") @@
    (TokGujarati :> "gujarati") @@ (TokGuj :> "gujarati")

\* m without surrounding whitespace, its capital letters made small
Folded(m) ==
    LET small == [c \in {UpperCase[u] : u \in 1..26} |->
                    LowerCase[CHOOSE u \in 1..26 : UpperCase[u] = c]]
    IN  [k \in 1..Len(Core(m)) |->
            IF Core(m)[k] \in DOMAIN small THEN small[Core(m)[k]] ELSE Core(m)[k]]

\* C13: a message is treated as a language command if and only if, trimmed
\* and lower-cased, it equals one of english, eng, hindi, hin, gujarati, guj,
\* which select english, hindi and gujarati; a message that only contains
\* such a word is not a command; isLanguageCommand is true exactly when
\* parseLanguage is not null.
C13_CommandRecognition ==
    \A r \in Requests :
        pc[r] # "idle" =>
            LET exact == Folded(msg[r]) \in DOMAIN TokenLanguage
            IN  /\ isLanguageCommand(msg[r]) <=> exact
                /\ isLanguageCommand(msg[r]) <=> parseLanguage(msg[r]) # "null"
                /\ exact => parseLanguage(msg[r]) = TokenLanguage[Folded(msg[r])]
                /\ pc[r] = "setLang" => exact
                /\ pc[r] = "resolved" =>
                      /\ result[r].isLanguageCommand <=> exact
                      /\ exact => result[r].language = TokenLanguage[Folded(msg[r])]

\* " HIN\n" was resolved as the command for hindi and "hindi TCS" would not be
C13_Witness ==
    \E r \in Requests :
        /\ pc[r] = "resolved"
        /\ msg[r] = <<" ", "H", "I", "N", "\n">>
        /\ result[r].isLanguageCommand
        /\ result[r].language = "hindi"
        /\ MsgContains \in CommandInputs
        /\ ~isLanguageCommand(MsgContains)

-----------------------------------------------------------------------------
(* Properties of single split steps and of unbroken bodies, checked under   *)
(* SplitSpec                                                                *)

\* body holds no whitespace character and no break marker
Plain(body) ==
    /\ \A k \in 1..Len(body) : body[k] \notin Whitespace
    /\ \A b \in Ranks : Occurrences(body, breakPoints[b]) = {}

\* body cut into consecutive pieces of maxLen characters, the last one shorter
\* when maxLen does not divide the length
Pieces(body, maxLen) ==
    [k \in 1..((Len(body) + maxLen - 1) \div maxLen) |->
        SubSeq(body, (k - 1) * maxLen + 1, Min({k * maxLen, Len(body)}))]

\* C19: a step that finds no marker occurrence from 70% of the limit up to
\* the limit, also when markers occur earlier, splits at exactly maxChunkSize
\* characters; so a body of length L without marker or whitespace comes back
\* as ceil(L / maxChunkSize) consecutive substrings of exactly maxChunkSize
\* characters, except possibly the last, whose concatenation is the body.
C19_HardCut ==
    /\ [][SplitStepTaken =>
            ((\A b \in Ranks : AtOrAfter70(remaining, maxLength, b) = {}) =>
                /\ splitIndex' = maxLength
                /\ parts' = Append(parts, Core(SubSeq(remaining, 1, maxLength)))
                /\ remaining' =
                      Core(SubSeq(remaining, maxLength + 1, Len(remaining))))]_vars
    /\ []((SplitReturned /\ Plain(text)) =>
            /\ parts = Pieces(text, maxLength)
            /\ Flatten(parts) = text)

\* the first step met a marker only before 70% of the limit and cut at the
\* limit
C19_Witness ==
    /\ spc = "loop"
    /\ Len(parts) = 1
    /\ \E b \in Ranks : Occurrences(SubSeq(text, 1, maxLength), breakPoints[b]) # {}
    /\ \A b \in Ranks : AtOrAfter70(text, maxLength, b) = {}
    /\ splitIndex = maxLength
    /\ Len(parts[1]) = maxLength

-----------------------------------------------------------------------------
(* Termination of the splitter, checked under TermSpec *)

\* C25: for every body and every maxChunkSize >= 1 the splitter terminates:
\* each iteration of the loop removes at least one character from the
\* remaining text, and the function returns.
C25_Termination ==
    /\ [][SplitStepTaken => Len(remaining') < Len(remaining)]_vars
    /\ <>(spc = "done")

\* the loop ran at least four times on a body that holds a stock separator
\* and the function returned
C25_Witness ==
    /\ spc = "done"
    /\ maxLength = 1
    /\ Len(text) > 7
    /\ Len(parts) >= 4
    /\ Len(remaining) <= 1

=============================================================================
